---- MODULE Spec2Model ----
(***************************************************************************)
(* Model of the document editor of OfficeXApp/Documents                    *)
(* (src/src/DocumentEditor.tsx, mounted by the router of                   *)
(* src/unnamed/part_000): the React state of the mounted DocumentEditor,   *)
(* the lodash-debounced saveDocument instances, the indicator timers, the  *)
(* IndexedDB open requests and transactions in flight, and the object      *)
(* store "documents".                                                      *)
(*                                                                         *)
(* Granularity.  One action is one browser task: a user event handler, a   *)
(* timer callback or an IndexedDB event handler, together with the React   *)
(* render and the effects (useEffect bodies and cleanups) that its state   *)
(* updates cause.  Time is counted in units of the debounce wait: a timer  *)
(* carries the number of whole units left before it may fire, and time     *)
(* does not pass a timer that is due.  IndexedDB requests take an          *)
(* arbitrary time.  Open requests are served in the order they were made;  *)
(* a read-write transaction runs in the order it was created, a read-only  *)
(* one may overtake other read-only ones but no read-write one.            *)
(***************************************************************************)
EXTENDS Integers, Sequences, FiniteSets, TLC

(***************************************************************************)
(* Bounds of the model.                                                    *)
(***************************************************************************)
\* user events (edits, menu actions, clicks) in one run
MaxEvents == 3
\* open requests, and transactions, in flight at one time
MaxQueue == 2
\* user events in one run of the specification with fairness
MaxQuietEvents == 2
\* keys written and read when the object store is taken alone
MaxStoreKeys == 2
\* documents in the list when the search filter is taken alone
MaxListed == 2

(***************************************************************************)
(* Program constants.                                                      *)
(***************************************************************************)
\* debounce(..., 1000): the quiet period in ms
DebounceWait == 1000
\* setTimeout(..., 2000): the display duration of the indicator in ms
IndicatorDuration == 2000

DebounceTicks == DebounceWait \div DebounceWait
IndicatorTicks == IndicatorDuration \div DebounceWait

\* the placeholder title of a seeded document
Placeholder == "Untitled Document"

(***************************************************************************)
(* Values.                                                                 *)
(***************************************************************************)
\* identifiers: two that may exist at start, one per uuidv4() call after
DocIds == 1 .. (2 + MaxEvents)
\* what the user can type into the title input / the editor
TypedTitles == {"", "a"}
TypedBodies == {"", "x"}

\* the Document interface
Doc(i, t, b) == [docId |-> i, title |-> t, body |-> b]
\* the absence of a record (request.result undefined)
NoDoc == Doc(0, "", "")

\* handles returned by setTimeout; 0 is null
TimerIds == 1 .. (2 * MaxEvents + 6)

VARIABLES
    docId,              \* useParams().docId of the mounted editor
    document,           \* useState<Document>
    showSaveIndicator,  \* useState(false)
    saveTimeout,        \* useState<Timeout | null>: 0 or a timer handle
    isModalOpen,        \* useState(false)
    documents,          \* useState<Document[]>
    searchTerm,         \* useState(""): a sequence of characters
    messages,           \* notices raised through antd message
    debounced,          \* the debounced saveDocument of the current render
    stale,              \* pending timers of superseded debounced instances
    hideTimers,         \* pending setTimeout callbacks that hide the indicator
    opens,              \* indexedDB.open requests not yet answered
    txq,                \* transactions created and not yet finished
    store,              \* object store "documents": docId -> record or NoDoc
    uuids,              \* number of identifiers generated by uuidv4()
    budget,             \* user events left
    \* history variables: they record what happened and steer nothing
    burst,              \* the run so far, as a burst of edits (see BurstStates)
    nPuts,              \* store.put calls since the burst began, up to 2
    seeded,             \* identifiers activated while absent from the store
                        \* and not edited since
    awaited,            \* a put that was in flight when the route changed
    pristine,           \* the in-memory Document is as loaded or seeded
    gone,               \* identifiers the user has asked to delete and has
                        \* neither edited nor saved by hand since
    \* history variables of StoreSpec
    written,            \* the documents put, each until its key is next
                        \* written or removed
    was                 \* the record that the last put found under its key

vars == <<docId, document, showSaveIndicator, saveTimeout, isModalOpen,
          documents, messages, debounced, stale, hideTimers, opens, txq,
          store, uuids, budget, burst, nPuts, seeded, awaited, pristine,
          searchTerm, gone, written, was>>

(***************************************************************************)
(* Helpers.                                                                *)
(***************************************************************************)
\* document.docId && document.title && document.body
WellFormed(d) == d.docId # 0 /\ d.title # "" /\ d.body # ""

\* a debounced instance with no timer running
NoTimer == [pending |-> FALSE, doc |-> NoDoc, rem |-> 0]

\* lodash debounce, trailing edge: a call records its argument and restarts
\* the timer of the instance
Invoke(deb, d) == [pending |-> TRUE, doc |-> d, rem |-> DebounceTicks]

\* faulty variant of AutosaveEffect: the document is never forwarded
AutosaveEffectOmitted(deb, d) == deb

\* useEffect(..., [document, saveDocument]): runs when either changed
AutosaveEffect(deb, d) == IF WellFormed(d) THEN Invoke(deb, d) ELSE deb

\* an open request; id is the identifier a load or a delete is for, and on
\* the refresh that deleteDocument starts it labels the identifier deleted
OpenReq(k, l, i, d, s) == [kind |-> k, live |-> l, id |-> i, doc |-> d, sto |-> s]
\* a transaction with its single request
Tx(k, l, i, d) == [kind |-> k, live |-> l, id |-> i, doc |-> d]

\* uuidv4(): an identifier never seen before
NextUuid == 3 + uuids

\* store.getAll(): the records in key order
RECURSIVE GetAllFrom(_, _)
GetAllFrom(s, i) ==
    IF i > 2 + MaxEvents THEN <<>>
    ELSE (IF s[i] # NoDoc THEN <<s[i]>> ELSE <<>>) \o GetAllFrom(s, i + 1)
GetAll(s) == GetAllFrom(s, 1)

\* timer handles some closure or pending callback still refers to
UsedTimerIds ==
    {saveTimeout} \cup {t.id : t \in hideTimers}
      \cup {stale[i].sto : i \in 1 .. Len(stale)}
      \cup {opens[i].sto : i \in 1 .. Len(opens)}
\* setTimeout returns a handle distinct from every handle in use
NewTimerId == CHOOSE t \in TimerIds : t \notin UsedTimerIds
                 /\ \A u \in TimerIds : u < t => u \in UsedTimerIds

\* clearTimeout(h)
ClearTimeout(timers, h) == {t \in timers : t.id # h}

\* the component unmounts: React ignores the state setters of its callbacks
RECURSIVE Orphan(_)
Orphan(q) ==
    IF q = <<>> THEN <<>>
    ELSE <<[Head(q) EXCEPT !.live = FALSE]>> \o Orphan(Tail(q))

\* room in the queues for the requests of a user event: a delete request,
\* once answered, makes two further open requests (loadAllDocuments and the
\* load of the new route)
RECURSIVE OpenLoad(_)
OpenLoad(q) ==
    IF q = <<>> THEN 0
    ELSE (IF Head(q).kind = "delete" THEN 2 ELSE 1) + OpenLoad(Tail(q))
OpenRoom(n) == OpenLoad(opens) + n <= MaxQueue
TxRoom == Len(txq) < MaxQueue
\* room for the request of a debounce timer that fires
TimerRoom == Len(opens) < MaxQueue

(***************************************************************************)
(* Initial state: the router has mounted <DocumentEditor/> at /doc/1; the  *)
(* mount effects have called initIndexDB() and loadDocument(docId).  The   *)
(* store holds what earlier sessions left: well-formed records or nothing. *)
(***************************************************************************)
InitStores ==
    {[i \in DocIds |-> IF i \in S THEN Doc(i, "a", "x") ELSE NoDoc] : S \in {{2}, {1, 2}}}

Mounted ==
    /\ docId = 1
    /\ document = Doc(1, Placeholder, "")
    /\ showSaveIndicator = FALSE
    /\ saveTimeout = 0
    /\ isModalOpen = FALSE
    /\ documents = <<>>
    /\ messages = {}
    /\ debounced = NoTimer
    /\ stale = <<>>
    /\ hideTimers = {}
    /\ opens = <<OpenReq("init", TRUE, 0, NoDoc, 0), OpenReq("load", TRUE, 1, NoDoc, 0)>>
    /\ txq = <<>>
    /\ store \in InitStores
    /\ uuids = 0
    /\ burst = "none"
    /\ nPuts = 0
    /\ seeded = IF store[1] = NoDoc THEN {1} ELSE {}
    /\ awaited = NoDoc
    /\ pristine = TRUE
    /\ searchTerm = <<>>
    /\ gone = {}
    /\ written = {}
    /\ was = NoDoc

Init == Mounted /\ budget = MaxEvents

(***************************************************************************)
(* History variables.                                                      *)
(***************************************************************************)
\* "none":   no user event yet, nothing forwarded to saveDocument
\* "open":   only edits so far, and no debounce timer has fired since the
\*           first edit that was forwarded: the edits all lie within less
\*           than the quiet period of each other
\* "closed": the timer of such a burst has fired and no user event followed
\* "void":   anything else
BurstStates == {"none", "open", "closed", "void"}

\* an edit that leaves the document d
BurstEdit(d) ==
    /\ burst' = IF burst = "none" THEN (IF WellFormed(d) THEN "open" ELSE "none")
                ELSE IF burst = "open" THEN "open"
                ELSE "void"
    /\ nPuts' = IF burst \in {"none", "open"} THEN nPuts ELSE 0
    /\ seeded' = seeded \ {d.docId}
    /\ pristine' = FALSE
    /\ gone' = gone \ {d.docId}

\* any other user event
BurstVoid == burst' = "void" /\ nPuts' = 0

\* the puts in flight (timer fired, transaction not finished), oldest first
RECURSIVE PutDocs(_)
PutDocs(q) ==
    IF q = <<>> THEN <<>>
    ELSE (IF Head(q).kind \in {"save", "put"} THEN <<Head(q).doc>> ELSE <<>>)
           \o PutDocs(Tail(q))
PutsInFlight == PutDocs(txq) \o PutDocs(opens)
PutsInFlightFor(id) == SelectSeq(PutsInFlight, LAMBDA d : d.docId = id)

\* the route leaves the identifier docId for the identifier id
Leave(id) ==
    /\ awaited' = IF PutsInFlightFor(docId) # <<>>
                  THEN PutsInFlightFor(docId)[Len(PutsInFlightFor(docId))]
                  ELSE awaited
    /\ seeded' = IF store[id] = NoDoc THEN seeded \cup {id} ELSE seeded \ {id}

\* a put of d has left the queues
Settled(d) == awaited' = IF d = awaited THEN NoDoc ELSE awaited

(***************************************************************************)
(* User events.                                                            *)
(***************************************************************************)
\* a user event is possible while the budget lasts
UserEvent == budget > 0 /\ budget' = budget - 1

\* the antd Modal masks the page: the title input, the editor and the menu
\* take no input while it is open
PageOperable == ~isModalOpen

\* setDocument(d), then the render and the autosave effect
SetDocument(d) ==
    /\ document' = d
    /\ debounced' = AutosaveEffect(debounced, d)

\* Input.onChange: setDocument({...document, title: e.target.value})
EditTitle(v) ==
    /\ UserEvent /\ PageOperable
    /\ v # document.title
    /\ SetDocument([document EXCEPT !.title = v])
    /\ UNCHANGED <<docId, showSaveIndicator, saveTimeout, isModalOpen, documents,
                   messages, stale, hideTimers, opens, txq, store, uuids>>
    /\ BurstEdit([document EXCEPT !.title = v])
    /\ UNCHANGED <<awaited, searchTerm, written, was>>

\* ReactQuill.onChange: setDocument({...document, body: value})
EditBody(v) ==
    /\ UserEvent /\ PageOperable
    /\ v # document.body
    /\ SetDocument([document EXCEPT !.body = v])
    /\ UNCHANGED <<docId, showSaveIndicator, saveTimeout, isModalOpen, documents,
                   messages, stale, hideTimers, opens, txq, store, uuids>>
    /\ BurstEdit([document EXCEPT !.body = v])
    /\ UNCHANGED <<awaited, searchTerm, written, was>>

\* handleManualSave: await saveDocument(document); message.success(...)
\* saveDocument is the debounced function: the call restarts its timer and
\* returns at once, so the notice follows in the same task
HandleManualSave ==
    /\ UserEvent /\ PageOperable
    /\ debounced' = Invoke(debounced, document)
    /\ messages' = messages \cup {"Document saved successfully"}
    /\ UNCHANGED <<docId, document, showSaveIndicator, saveTimeout, isModalOpen,
                   documents, stale, hideTimers, opens, txq, store, uuids>>
    /\ BurstVoid
    /\ gone' = gone \ {document.docId}
    /\ UNCHANGED <<seeded, awaited>>
    /\ UNCHANGED <<pristine, searchTerm, written, was>>

\* menu "Open": loadAllDocuments(); setIsModalOpen(true)
OpenMenu ==
    /\ UserEvent /\ PageOperable
    /\ OpenRoom(1)
    /\ opens' = Append(opens, OpenReq("loadAll", TRUE, 0, NoDoc, 0))
    /\ isModalOpen' = TRUE
    /\ UNCHANGED <<docId, document, showSaveIndicator, saveTimeout, documents,
                   messages, debounced, stale, hideTimers, txq, store, uuids>>
    /\ BurstVoid
    /\ UNCHANGED <<seeded, awaited>>
    /\ UNCHANGED <<pristine, searchTerm, gone, written, was>>

\* Modal.onCancel: setIsModalOpen(false)
CloseModal ==
    /\ UserEvent /\ isModalOpen
    /\ isModalOpen' = FALSE
    /\ UNCHANGED <<docId, document, showSaveIndicator, saveTimeout, documents,
                   messages, debounced, stale, hideTimers, opens, txq, store, uuids>>
    /\ BurstVoid
    /\ UNCHANGED <<seeded, awaited>>
    /\ UNCHANGED <<pristine, searchTerm, gone, written, was>>

\* faulty variant of LoadEffect: a route change drops the requests still waiting
LoadEffectCancelling(q, old, new) ==
    IF new # old THEN <<OpenReq("load", TRUE, new, NoDoc, 0)>> ELSE q

\* useEffect(..., [docId]): loadDocument(docId) when the route parameter changed
LoadEffect(q, old, new) ==
    IF new # old THEN Append(q, OpenReq("load", TRUE, new, NoDoc, 0)) ELSE q

\* list item click: navigate(`/doc/${item.docId}`); setIsModalOpen(false)
OpenItem(i) ==
    /\ UserEvent /\ isModalOpen
    /\ i \in 1 .. Len(documents)
    /\ OpenRoom(1)
    /\ docId' = documents[i].docId
    /\ isModalOpen' = FALSE
    /\ opens' = LoadEffect(opens, docId, documents[i].docId)
    /\ UNCHANGED <<document, showSaveIndicator, saveTimeout, documents, messages,
                   debounced, stale, hideTimers, txq, store, uuids>>
    /\ BurstVoid
    /\ IF documents[i].docId # docId THEN Leave(documents[i].docId)
       ELSE UNCHANGED <<seeded, awaited>>
    /\ UNCHANGED <<pristine, searchTerm, gone, written, was>>

\* Popconfirm.onConfirm: deleteDocument(item.docId) opens the database
ConfirmDelete(i) ==
    /\ UserEvent /\ isModalOpen
    /\ i \in 1 .. Len(documents)
    /\ OpenRoom(2)
    /\ opens' = Append(opens, OpenReq("delete", TRUE, documents[i].docId, NoDoc, 0))
    /\ UNCHANGED <<docId, document, showSaveIndicator, saveTimeout, isModalOpen,
                   documents, messages, debounced, stale, hideTimers, txq, store,
                   uuids>>
    /\ BurstVoid
    /\ gone' = gone \cup {documents[i].docId}
    /\ UNCHANGED <<seeded, awaited>>
    /\ UNCHANGED <<pristine, searchTerm, written, was>>

\* menu "New": navigate("/"); the router replaces the editor by <Navigate/>,
\* which redirects to /doc/<uuid>: the editor unmounts (its effect cleanup
\* clears saveTimeout; its debounce timers and requests live on) and a new
\* editor mounts with fresh state and runs the mount effects
NewDocument ==
    /\ UserEvent /\ PageOperable
    /\ OpenRoom(2)
    /\ docId' = NextUuid
    /\ uuids' = uuids + 1
    /\ document' = Doc(NextUuid, Placeholder, "")
    /\ showSaveIndicator' = FALSE
    /\ saveTimeout' = 0
    /\ documents' = <<>>
    /\ debounced' = NoTimer
    /\ stale' = Orphan(stale) \o
                  (IF debounced.pending
                   THEN <<[doc |-> debounced.doc, rem |-> debounced.rem,
                           sto |-> saveTimeout, live |-> FALSE]>>
                   ELSE <<>>)
    /\ hideTimers' = {[t EXCEPT !.live = FALSE] : t \in ClearTimeout(hideTimers, saveTimeout)}
    /\ opens' = Orphan(opens) \o <<OpenReq("init", TRUE, 0, NoDoc, 0),
                                   OpenReq("load", TRUE, NextUuid, NoDoc, 0)>>
    /\ txq' = Orphan(txq)
    /\ UNCHANGED <<isModalOpen, messages, store>>
    /\ BurstVoid
    /\ Leave(NextUuid)
    /\ pristine' = TRUE
    /\ searchTerm' = <<>>
    /\ UNCHANGED <<gone, written, was>>

(***************************************************************************)
(* Timers.                                                                 *)
(***************************************************************************)
AllRems ==
    {stale[i].rem : i \in 1 .. Len(stale)} \cup {t.rem : t \in hideTimers}
      \cup (IF debounced.pending THEN {debounced.rem} ELSE {})

RECURSIVE TickSeq(_)
TickSeq(q) ==
    IF q = <<>> THEN <<>>
    ELSE <<[Head(q) EXCEPT !.rem = @ - 1]>> \o TickSeq(Tail(q))

\* one unit of time passes: no timer is due, every timer comes one unit closer
Tick ==
    /\ AllRems # {}
    /\ 0 \notin AllRems
    /\ stale' = TickSeq(stale)
    /\ hideTimers' = {[t EXCEPT !.rem = @ - 1] : t \in hideTimers}
    /\ debounced' = IF debounced.pending THEN [debounced EXCEPT !.rem = @ - 1]
                    ELSE debounced
    /\ UNCHANGED <<docId, document, showSaveIndicator, saveTimeout, isModalOpen,
                   documents, messages, opens, txq, store, uuids, budget>>
    /\ UNCHANGED <<burst, nPuts, seeded, awaited>>
    /\ UNCHANGED <<pristine, searchTerm, gone, written, was>>

\* the debounced function runs on the trailing edge:
\*   const db = await window.indexedDB.open("OfficeXDocs", 1)
\* Debounce timers all wait equally long, so they fire in the order they
\* were started: superseded instances before the current one.
DebounceFireStale ==
    /\ stale # <<>>
    /\ Head(stale).rem = 0
    /\ TimerRoom
    /\ opens' = Append(opens, OpenReq("save", Head(stale).live, 0, Head(stale).doc,
                                      Head(stale).sto))
    /\ stale' = Tail(stale)
    /\ UNCHANGED <<docId, document, showSaveIndicator, saveTimeout, isModalOpen,
                   documents, messages, debounced, hideTimers, txq, store, uuids,
                   budget>>
    /\ UNCHANGED <<burst, nPuts, seeded, awaited>>
    /\ UNCHANGED <<pristine, searchTerm, gone, written, was>>

DebounceFire ==
    /\ stale = <<>>
    /\ debounced.pending
    /\ debounced.rem = 0
    /\ TimerRoom
    /\ opens' = Append(opens, OpenReq("save", TRUE, 0, debounced.doc, saveTimeout))
    /\ debounced' = NoTimer
    /\ UNCHANGED <<docId, document, showSaveIndicator, saveTimeout, isModalOpen,
                   documents, messages, stale, hideTimers, txq, store, uuids,
                   budget>>
    /\ burst' = IF burst = "open" THEN "closed" ELSE burst
    /\ UNCHANGED <<nPuts, seeded, awaited>>
    /\ UNCHANGED <<pristine, searchTerm, gone, written, was>>

\* setTimeout(() => setShowSaveIndicator(false), 2000) fires
HideFire ==
    \E t \in hideTimers :
        /\ t.rem = 0
        /\ hideTimers' = hideTimers \ {t}
        /\ showSaveIndicator' = IF t.live THEN FALSE ELSE showSaveIndicator
        /\ UNCHANGED <<docId, document, saveTimeout, isModalOpen, documents,
                       messages, debounced, stale, opens, txq, store, uuids,
                       budget>>
    /\ UNCHANGED <<burst, nPuts, seeded, awaited>>
    /\ UNCHANGED <<pristine, searchTerm, gone, written, was>>

(***************************************************************************)
(* IndexedDB open requests: the head of the queue is answered.             *)
(***************************************************************************)
\* initIndexDB: the request succeeds; onupgradeneeded has created the
\* object store if it was missing; no onsuccess handler is set
InitOpened ==
    /\ opens # <<>>
    /\ Head(opens).kind = "init"
    /\ opens' = Tail(opens)
    /\ UNCHANGED <<docId, document, showSaveIndicator, saveTimeout, isModalOpen,
                   documents, messages, debounced, stale, hideTimers, txq, store,
                   uuids, budget>>
    /\ UNCHANGED <<burst, nPuts, seeded, awaited>>
    /\ UNCHANGED <<pristine, searchTerm, gone, written, was>>

\* loadDocument, db.onsuccess: store.get(id) in a readonly transaction
LoadOpened ==
    /\ opens # <<>>
    /\ Head(opens).kind = "load"
    /\ TxRoom
    /\ opens' = Tail(opens)
    /\ txq' = Append(txq, Tx("get", Head(opens).live, Head(opens).id, NoDoc))
    /\ UNCHANGED <<docId, document, showSaveIndicator, saveTimeout, isModalOpen,
                   documents, messages, debounced, stale, hideTimers, store, uuids,
                   budget>>
    /\ UNCHANGED <<burst, nPuts, seeded, awaited>>
    /\ UNCHANGED <<pristine, searchTerm, gone, written, was>>

\* loadAllDocuments, db.onsuccess: store.getAll() in a readonly transaction
LoadAllOpened ==
    /\ opens # <<>>
    /\ Head(opens).kind = "loadAll"
    /\ TxRoom
    /\ opens' = Tail(opens)
    /\ txq' = Append(txq, Tx("getAll", Head(opens).live, Head(opens).id, NoDoc))
    /\ UNCHANGED <<docId, document, showSaveIndicator, saveTimeout, isModalOpen,
                   documents, messages, debounced, stale, hideTimers, store, uuids,
                   budget>>
    /\ UNCHANGED <<burst, nPuts, seeded, awaited>>
    /\ UNCHANGED <<pristine, searchTerm, gone, written, was>>

\* the cleanup of useEffect(..., [saveTimeout]) when saveTimeout changes
CleanupEffect(timers, old) == ClearTimeout(timers, old)

\* saveDocument, db.onsuccess: store.put(doc) in a readwrite transaction;
\* clearTimeout(saveTimeout) of the closure; setShowSaveIndicator(true);
\* a new hide timer; setSaveTimeout(timeout).  The render that follows
\* runs the cleanup of the saveTimeout effect, makes a new debounced
\* saveDocument (useCallback dependency [saveTimeout]) and so re-runs the
\* autosave effect.  The timer of the superseded instance is not cancelled.
SaveOpened ==
    /\ opens # <<>>
    /\ Head(opens).kind = "save"
    /\ TxRoom
    /\ LET op == Head(opens)
           h == NewTimerId
           cleared == ClearTimeout(hideTimers, op.sto)
           timer == [id |-> h, rem |-> IndicatorTicks, live |-> op.live]
       IN  /\ opens' = Tail(opens)
           /\ txq' = Append(txq, Tx("put", op.live, op.doc.docId, op.doc))
           /\ IF op.live
              THEN /\ showSaveIndicator' = TRUE
                   /\ saveTimeout' = h
                   /\ hideTimers' = CleanupEffect(cleared, saveTimeout) \cup {timer}
                   /\ stale' = IF debounced.pending
                               THEN Append(stale, [doc |-> debounced.doc,
                                                   rem |-> debounced.rem,
                                                   sto |-> saveTimeout,
                                                   live |-> TRUE])
                               ELSE stale
                   /\ debounced' = AutosaveEffect(NoTimer, document)
              ELSE /\ hideTimers' = cleared \cup {timer}
                   /\ UNCHANGED <<showSaveIndicator, saveTimeout, stale, debounced>>
    /\ UNCHANGED <<docId, document, isModalOpen, documents, messages, store, uuids,
                   budget>>
    /\ nPuts' = IF burst = "void" \/ nPuts = 2 THEN nPuts ELSE nPuts + 1
    /\ UNCHANGED <<burst, seeded, awaited>>
    /\ UNCHANGED <<pristine, searchTerm, gone, written, was>>

\* deleteDocument, db.onsuccess: store.delete(docId) in a readwrite
\* transaction; loadAllDocuments(); navigate(`/doc/${uuidv4()}`);
\* setIsModalOpen(false); message.success("Document deleted").
\* The route changes for whichever editor is mounted, whose [docId] effect
\* then loads the new identifier.
DeleteOpened ==
    /\ opens # <<>>
    /\ Head(opens).kind = "delete"
    /\ TxRoom
    /\ LET op == Head(opens)
       IN  /\ txq' = Append(txq, Tx("delete", op.live, op.id, NoDoc))
           /\ opens' = LoadEffect(Append(Tail(opens),
                                         OpenReq("loadAll", op.live, op.id, NoDoc, 0)),
                                  docId, NextUuid)
           /\ docId' = NextUuid
           /\ uuids' = uuids + 1
           /\ isModalOpen' = IF op.live THEN FALSE ELSE isModalOpen
           /\ messages' = messages \cup {"Document deleted"}
    /\ UNCHANGED <<document, showSaveIndicator, saveTimeout, documents, debounced,
                   stale, hideTimers, store, budget>>
    /\ Leave(NextUuid)
    /\ UNCHANGED <<burst, nPuts>>
    /\ UNCHANGED <<pristine, searchTerm, gone, written, was>>

\* an open request fails: only initIndexDB has set db.onerror
OpenFailed ==
    /\ opens # <<>>
    /\ opens' = Tail(opens)
    /\ messages' = IF Head(opens).kind = "init"
                   THEN messages \cup {"Failed to initialize database"}
                   ELSE messages
    /\ UNCHANGED <<docId, document, showSaveIndicator, saveTimeout, isModalOpen,
                   documents, debounced, stale, hideTimers, txq, store, uuids,
                   budget>>
    /\ IF Head(opens).kind = "save" THEN Settled(Head(opens).doc) ELSE UNCHANGED awaited
    /\ UNCHANGED <<burst, nPuts, seeded>>
    /\ UNCHANGED <<pristine, searchTerm, gone, written, was>>

(***************************************************************************)
(* Transactions.                                                           *)
(***************************************************************************)
IsWrite(tx) == tx.kind \in {"put", "delete"}

\* transaction i may run: a read-write one when it is the oldest, a
\* read-only one when no read-write one was created before it
MayRun(i) ==
    /\ i \in 1 .. Len(txq)
    /\ IF IsWrite(txq[i]) THEN i = 1
       ELSE \A j \in 1 .. (i - 1) : ~IsWrite(txq[j])

Remove(q, i) == SubSeq(q, 1, i - 1) \o SubSeq(q, i + 1, Len(q))

\* faulty variant of Loaded: a record without title or body counts as absent
LoadedIfFilled(id, s) == IF WellFormed(s[id]) THEN s[id] ELSE Doc(id, Placeholder, "")

\* loadDocument, request.onsuccess: setDocument(request.result) or the seed
Loaded(id, s) == IF s[id] # NoDoc THEN s[id] ELSE Doc(id, Placeholder, "")

GetDone(i) ==
    /\ MayRun(i)
    /\ txq[i].kind = "get"
    /\ txq' = Remove(txq, i)
    /\ IF txq[i].live
       THEN SetDocument(Loaded(txq[i].id, store))
       ELSE UNCHANGED <<document, debounced>>
    /\ UNCHANGED <<docId, showSaveIndicator, saveTimeout, isModalOpen, documents,
                   messages, stale, hideTimers, opens, store, uuids, budget>>
    /\ IF txq[i].live
       THEN /\ burst' = IF burst = "none" /\ store[txq[i].id] = NoDoc THEN "none" ELSE "void"
            /\ nPuts' = 0
       ELSE UNCHANGED <<burst, nPuts>>
    /\ UNCHANGED <<seeded, awaited>>
    /\ pristine' = IF txq[i].live THEN TRUE ELSE pristine
    /\ UNCHANGED <<searchTerm, gone, written, was>>

\* loadAllDocuments, request.onsuccess: setDocuments(request.result)
GetAllDone(i) ==
    /\ MayRun(i)
    /\ txq[i].kind = "getAll"
    /\ txq' = Remove(txq, i)
    /\ documents' = IF txq[i].live THEN GetAll(store) ELSE documents
    /\ UNCHANGED <<docId, document, showSaveIndicator, saveTimeout, isModalOpen,
                   messages, debounced, stale, hideTimers, opens, store, uuids,
                   budget>>
    /\ UNCHANGED <<burst, nPuts, seeded, awaited>>
    /\ UNCHANGED <<pristine, searchTerm, gone, written, was>>

\* faulty variant of Put: a record whose key is taken is added under a free key
PutAdding(s, d) ==
    IF s[d.docId] = NoDoc \/ \A k \in DocIds : s[k] # NoDoc
    THEN [s EXCEPT ![d.docId] = d]
    ELSE [s EXCEPT ![CHOOSE k \in DocIds : s[k] = NoDoc] = d]

\* store.put(doc) commits: keyPath "docId", the record replaces any other
\* record of the same key
Put(s, d) == [s EXCEPT ![d.docId] = d]

PutDone ==
    /\ MayRun(1)
    /\ txq[1].kind = "put"
    /\ txq' = Tail(txq)
    /\ store' = Put(store, txq[1].doc)
    /\ UNCHANGED <<docId, document, showSaveIndicator, saveTimeout, isModalOpen,
                   documents, messages, debounced, stale, hideTimers, opens, uuids,
                   budget>>
    /\ Settled(txq[1].doc)
    /\ UNCHANGED <<burst, nPuts, seeded>>
    /\ UNCHANGED <<pristine, searchTerm, gone, written, was>>

\* store.delete(docId) commits
Delete(s, id) == [s EXCEPT ![id] = NoDoc]

DeleteDone ==
    /\ MayRun(1)
    /\ txq[1].kind = "delete"
    /\ txq' = Tail(txq)
    /\ store' = Delete(store, txq[1].id)
    /\ UNCHANGED <<docId, document, showSaveIndicator, saveTimeout, isModalOpen,
                   documents, messages, debounced, stale, hideTimers, opens, uuids,
                   budget>>
    /\ UNCHANGED <<burst, nPuts, seeded, awaited>>
    /\ UNCHANGED <<pristine, searchTerm, gone, written, was>>

\* a transaction aborts: no handler is set on any request or transaction
TxFailed(i) ==
    /\ MayRun(i)
    /\ txq' = Remove(txq, i)
    /\ UNCHANGED <<docId, document, showSaveIndicator, saveTimeout, isModalOpen,
                   documents, messages, debounced, stale, hideTimers, opens, store,
                   uuids, budget>>
    /\ IF txq[i].kind = "put" THEN Settled(txq[i].doc) ELSE UNCHANGED awaited
    /\ UNCHANGED <<burst, nPuts, seeded>>
    /\ UNCHANGED <<pristine, searchTerm, gone, written, was>>

(***************************************************************************)
(* Specifications.                                                         *)
(***************************************************************************)
User ==
    \/ \E v \in TypedTitles : EditTitle(v)
    \/ \E v \in TypedBodies : EditBody(v)
    \/ HandleManualSave
    \/ OpenMenu
    \/ CloseModal
    \/ \E i \in DocIds : OpenItem(i)
    \/ \E i \in DocIds : ConfirmDelete(i)
    \/ NewDocument

Timers ==
    \/ Tick
    \/ DebounceFireStale
    \/ DebounceFire
    \/ HideFire

Database ==
    \/ InitOpened
    \/ LoadOpened
    \/ LoadAllOpened
    \/ SaveOpened
    \/ DeleteOpened
    \/ \E i \in 1 .. MaxQueue : GetDone(i)
    \/ \E i \in 1 .. MaxQueue : GetAllDone(i)
    \/ PutDone
    \/ DeleteDone

Failures ==
    \/ OpenFailed
    \/ \E i \in 1 .. MaxQueue : TxFailed(i)

Next == User \/ Timers \/ Database \/ Failures

Spec == Init /\ [][Next]_vars

\* The store works and the event loop runs every timer that is due and
\* every request that is answered; the user stops after MaxQuietEvents
\* events.
FairInit == Mounted /\ budget = MaxQuietEvents
FairNext == User \/ Timers \/ Database
FairSpec == FairInit /\ [][FairNext]_vars /\ WF_vars(Timers) /\ WF_vars(Database)

\* The store works; the user makes up to MaxEvents events.
WorkingSpec == Init /\ [][FairNext]_vars

(***************************************************************************)
(* The object store taken alone: any sequence of the operations that the   *)
(* editor issues on it (store.put, store.delete, store.get), with any      *)
(* documents, each operation committed before the next begins.  The editor *)
(* stands idle; written and was record what the operations did.            *)
(***************************************************************************)
StoreKeys == 1 .. MaxStoreKeys
StoreDocs == {Doc(i, t, b) : i \in StoreKeys, t \in TypedTitles, b \in TypedBodies}

\* the object store as onupgradeneeded creates it: empty
StoreInit ==
    /\ docId = 1
    /\ document = Doc(1, Placeholder, "")
    /\ showSaveIndicator = FALSE
    /\ saveTimeout = 0
    /\ isModalOpen = FALSE
    /\ documents = <<>>
    /\ searchTerm = <<>>
    /\ messages = {}
    /\ debounced = NoTimer
    /\ stale = <<>>
    /\ hideTimers = {}
    /\ opens = <<>>
    /\ txq = <<>>
    /\ store = [i \in DocIds |-> NoDoc]
    /\ uuids = 0
    /\ budget = 0
    /\ burst = "none"
    /\ nPuts = 0
    /\ seeded = {}
    /\ awaited = NoDoc
    /\ pristine = TRUE
    /\ gone = {}
    /\ written = {}
    /\ was = NoDoc

\* store.put(d), committed
StorePut(d) ==
    /\ store' = Put(store, d)
    /\ written' = {w \in written : w.docId # d.docId} \cup {d}
    /\ was' = store[d.docId]
    /\ UNCHANGED <<docId, document, showSaveIndicator, saveTimeout, isModalOpen,
                   documents, searchTerm, messages, debounced, stale, hideTimers,
                   opens, txq, uuids, budget, burst, nPuts, seeded, awaited,
                   pristine, gone>>

\* store.delete(id), committed
StoreRemove(id) ==
    /\ store' = Delete(store, id)
    /\ written' = {w \in written : w.docId # id}
    /\ UNCHANGED <<docId, document, showSaveIndicator, saveTimeout, isModalOpen,
                   documents, searchTerm, messages, debounced, stale, hideTimers,
                   opens, txq, uuids, budget, burst, nPuts, seeded, awaited,
                   pristine, gone, was>>

\* store.get(id), and what loadDocument makes of the result
StoreGet(id) ==
    /\ document' = Loaded(id, store)
    /\ UNCHANGED <<docId, showSaveIndicator, saveTimeout, isModalOpen, documents,
                   searchTerm, messages, debounced, stale, hideTimers, opens, txq,
                   store, uuids, budget, burst, nPuts, seeded, awaited, pristine,
                   gone, written, was>>

StoreNext ==
    \/ \E d \in StoreDocs : StorePut(d)
    \/ \E id \in StoreKeys : StoreRemove(id)
    \/ \E id \in StoreKeys : StoreGet(id)

StoreSpec == StoreInit /\ [][StoreNext]_vars

(***************************************************************************)
(* The search filter of the "Open Document" modal taken alone: a list has  *)
(* been loaded and the user changes the search term.  Titles and search    *)
(* terms are sequences of characters here.  (In Spec and FairSpec the      *)
(* search box stays empty, so that the list shown is the list loaded.)     *)
(***************************************************************************)
\* String.prototype.toLowerCase on the characters in use
LowerChar(c) == CASE c = "A" -> "a" [] c = "B" -> "b" [] OTHER -> c

RECURSIVE ToLowerCase(_)
ToLowerCase(str) ==
    IF str = <<>> THEN <<>>
    ELSE <<LowerChar(Head(str))>> \o ToLowerCase(Tail(str))

\* String.prototype.includes: the first position from k on, if any, at
\* which the characters of needle follow one another in str
RECURSIVE IncludesFrom(_, _, _)
IncludesFrom(str, needle, k) ==
    IF k + Len(needle) > Len(str) THEN FALSE
    ELSE IF SubSeq(str, k + 1, k + Len(needle)) = needle THEN TRUE
    ELSE IncludesFrom(str, needle, k + 1)
Includes(str, needle) == IncludesFrom(str, needle, 0)

\* faulty variant of FilteredDocuments: the search term is taken as typed
FilteredDocumentsAsTyped(docs, term) ==
    SelectSeq(docs, LAMBDA doc : Includes(ToLowerCase(doc.title), term))

\* documents.filter((doc) =>
\*   doc.title.toLowerCase().includes(searchTerm.toLowerCase()))
FilteredDocuments(docs, term) ==
    SelectSeq(docs, LAMBDA doc : Includes(ToLowerCase(doc.title), ToLowerCase(term)))

\* titles of listed documents, and what the user types into the search box
FilterTitles ==
    {<<>>, <<"a">>, <<"a", "b">>, <<"A", "B">>, <<"b", "a">>, <<"a", "x", "b">>,
     <<"x", "a", "B", "y">>}
SearchTerms ==
    {<<>>, <<"b">>, <<"a", "b">>, <<"A", "b">>, <<"x", "a">>, <<"b", "a", "b">>}

\* what store.getAll() can deliver: records in key order
FilterLists ==
    UNION {{[k \in 1 .. n |-> Doc(k, f[k], "x")] : f \in [1 .. n -> FilterTitles]}
             : n \in 0 .. MaxListed}

FilterInit ==
    /\ docId = 1
    /\ document = Doc(1, Placeholder, "")
    /\ showSaveIndicator = FALSE
    /\ saveTimeout = 0
    /\ isModalOpen = TRUE
    /\ documents \in FilterLists
    /\ searchTerm = <<>>
    /\ messages = {}
    /\ debounced = NoTimer
    /\ stale = <<>>
    /\ hideTimers = {}
    /\ opens = <<>>
    /\ txq = <<>>
    /\ store = [i \in DocIds |-> NoDoc]
    /\ uuids = 0
    /\ budget = 0
    /\ burst = "none"
    /\ nPuts = 0
    /\ seeded = {}
    /\ awaited = NoDoc
    /\ pristine = TRUE
    /\ gone = {}
    /\ written = {}
    /\ was = NoDoc

\* Input.Search.onChange: setSearchTerm(e.target.value)
SetSearchTerm(v) ==
    /\ isModalOpen
    /\ v # searchTerm
    /\ searchTerm' = v
    /\ UNCHANGED <<docId, document, showSaveIndicator, saveTimeout, isModalOpen,
                   documents, messages, debounced, stale, hideTimers, opens, txq,
                   store, uuids, budget, burst, nPuts, seeded, awaited, pristine,
                   gone, written, was>>

FilterNext == \E v \in SearchTerms : SetSearchTerm(v)

FilterSpec == FilterInit /\ [][FilterNext]_vars

(***************************************************************************)
(* The claims.                                                             *)
(***************************************************************************)

\* C1 (as claimed): a burst of content-change notifications that all arrive
\* within less than the quiet period of each other, followed by no further
\* user event, causes exactly one put: never a second one.
C1_OnePutPerBurst == burst = "closed" => nPuts <= 1

C3_ManualSaveImmediate ==
    [][HandleManualSave =>
         /\ ~debounced'.pending
         /\ \E i \in 1 .. Len(opens') :
                opens'[i].kind = "save" /\ opens'[i].doc = document]_vars

\* C4 (as claimed): an identifier that was activated while it had no stored
\* record, and was not edited since, has no stored record.
C4_NoRecordBeforeFirstEdit == \A i \in seeded : store[i] = NoDoc

\* C5 (as claimed): every record of the store has a non-empty docId, title
\* and body.
C5_StoredWellFormed == \A i \in DocIds : store[i] # NoDoc => WellFormed(store[i])

\* C6 (as claimed): the completion of a save of a document that is no longer
\* the active one does not make the indicator visible.
C6_StaleCompletionIsolated ==
    [][(SaveOpened /\ Head(opens).doc.docId # docId)
          => (showSaveIndicator' => showSaveIndicator)]_vars

\* C7 (as claimed): once the user has stopped, the indicator is eventually
\* hidden for good.
C7_IndicatorReturnsToIdle == <>[](~showSaveIndicator)

\* C8 (as claimed): a put that fails, at the open or in its transaction, is
\* reported to the user by a failure notice.
ErrorNotices == {"Failed to initialize database"}
PutFails ==
    \/ OpenFailed /\ Head(opens).kind = "save"
    \/ \E i \in 1 .. MaxQueue : TxFailed(i) /\ txq[i].kind = "put"
C8_FailedPutReported == [][PutFails => messages' \cap ErrorNotices # {}]_vars

\* C9 (as claimed): at most one put is in flight for the active document.
C9_SingleInFlight == Len(PutsInFlightFor(docId)) <= 1

\* C10: a put that is in flight for a document when the route leaves that
\* document is not cancelled: it eventually commits (given that the store
\* works), and when it does the store holds its snapshot under its docId.
C10_InFlightPutCommits ==
    /\ (awaited # NoDoc) ~> (awaited = NoDoc)
    /\ [][awaited # NoDoc /\ awaited' = NoDoc
            => store'[awaited.docId] = awaited]_vars

\* C10 witness: the route has left a document whose put is about to commit
C10_Witness ==
    /\ awaited # NoDoc
    /\ awaited.docId # docId
    /\ txq # <<>>
    /\ txq[1].kind = "put"
    /\ txq[1].doc = awaited

\* C11 (as claimed): a delete commits whether or not the key is present,
\* and the list that the refresh started by the delete of an identifier
\* receives holds no document of that identifier.
C11_RefreshExcludesDeleted ==
    /\ [][DeleteDone => store'[txq[1].id] = NoDoc]_vars
    /\ [][\A i \in 1 .. MaxQueue :
            (GetAllDone(i) /\ txq[i].id # 0)
              => \A k \in 1 .. Len(GetAll(store)) :
                     GetAll(store)[k].docId # txq[i].id]_vars

\* C12: a get of a key returns the document last put under that key, equal
\* in docId, title and body, whenever no put or delete of that key came in
\* between; this for every document, well-formed or not.
C12_RoundTrip ==
    [][\A id \in StoreKeys :
          StoreGet(id) => \A d \in written : d.docId = id => document' = d]_vars

\* C12 witness: a document without title and body was put and read back
C12_Witness ==
    /\ document = Doc(2, "", "")
    /\ document \in written
    /\ store[2] = document

\* C13: every record is stored under the key equal to its own docId, no two
\* records share a docId, and a put under a key that holds a record leaves
\* the new record there and the number of records as it was.
C13_UpsertUnique ==
    /\ [](\A i \in DocIds : store[i] # NoDoc => store[i].docId = i)
    /\ [](Len(GetAll(store))
            = Cardinality({store[i].docId : i \in {k \in DocIds : store[k] # NoDoc}}))
    /\ [][\A d \in StoreDocs :
            (StorePut(d) /\ store[d.docId] # NoDoc)
              => /\ store'[d.docId] = d
                 /\ Len(GetAll(store')) = Len(GetAll(store))]_vars

\* C13 witness: the last put found another record under its key and has
\* replaced it, next to a record of the other key
C13_Witness ==
    /\ was # NoDoc
    /\ \E d \in written : d.docId = was.docId /\ d # was /\ store[d.docId] = d
    /\ Len(GetAll(store)) = 2

\* C14: the filtered list is the subsequence, in the original order, of the
\* documents whose title, in lower case, holds the search term, in lower
\* case, as a run of adjacent characters; with an empty search term it is
\* the whole list.
Fold(str) == [k \in 1 .. Len(str) |-> LowerChar(str[k])]
Occurs(str, run) ==
    \E i \in 0 .. (Len(str) - Len(run)) : \A j \in 1 .. Len(run) : str[i + j] = run[j]
Matching == {k \in 1 .. Len(documents) :
                Occurs(Fold(documents[k].title), Fold(searchTerm))}
C14_FilterIsMatchingSubsequence ==
    LET shown == FilteredDocuments(documents, searchTerm)
    IN  /\ Len(shown) = Cardinality(Matching)
        /\ \A k \in Matching :
               shown[Cardinality({j \in Matching : j <= k})] = documents[k]
        /\ searchTerm = <<>> => shown = documents

\* C14 witness: the term "Ab" keeps "xaBy" and drops "axb"
C14_Witness ==
    /\ documents = <<Doc(1, <<"a", "x", "b">>, "x"), Doc(2, <<"x", "a", "B", "y">>, "x")>>
    /\ searchTerm = <<"A", "b">>
    /\ FilteredDocuments(documents, searchTerm) = <<documents[2]>>

\* C15 (as claimed): whenever an open request or a transaction fails, a
\* failure notice is raised or the state of the editor changes; a load that
\* fails, at the open or in its get, is among these.
EditorState ==
    <<docId, document, showSaveIndicator, saveTimeout, isModalOpen, documents,
      searchTerm>>
OperationFails == OpenFailed \/ \E i \in 1 .. MaxQueue : TxFailed(i)
C15_FailurePropagated ==
    [][OperationFails
         => (messages' \cap ErrorNotices # {} \/ EditorState' # EditorState)]_vars

\* C16 (as claimed): when the indicator is raised for a put, and when the
\* notice of a manual save is raised, the store holds the snapshot that is
\* reported under its docId.
C16_SavedImpliesDurable ==
    /\ [][(SaveOpened /\ Head(opens).live)
            => store'[Head(opens).doc.docId] = Head(opens).doc]_vars
    /\ [][HandleManualSave => store'[document.docId] = document]_vars

\* C17 (as claimed): once the delete of a document has committed, and as
\* long as the user neither edits nor saves that document by hand, the store
\* holds no record of it: no put of an autosave brings it back.
DeleteOutstanding(i) ==
    \/ \E k \in 1 .. Len(opens) : opens[k].kind = "delete" /\ opens[k].id = i
    \/ \E k \in 1 .. Len(txq) : txq[k].kind = "delete" /\ txq[k].id = i
C17_DeletedStaysAbsent ==
    \A i \in gone : ~DeleteOutstanding(i) => store[i] = NoDoc

\* C18 (as claimed): once the user has stopped, the saving comes to rest:
\* from some point on no debounce timer is pending and no put is in flight.
C18_AutosaveQuiescent ==
    <>[](~debounced.pending /\ stale = <<>> /\ PutsInFlight = <<>>)

\* C19 (as claimed): when the load of another, stored document completes
\* while the debounce timer holds an edited snapshot that is neither written
\* nor on its way to the store, that snapshot is still held by a timer
\* afterwards.
LoadsOutstanding ==
    Len(SelectSeq(opens, LAMBDA q : q.kind = "load"))
      + Len(SelectSeq(txq, LAMBDA t : t.kind = "get"))
EditWaiting ==
    /\ ~pristine
    /\ debounced.pending
    /\ debounced.doc = document
    /\ store[document.docId] # document
    /\ \A k \in 1 .. Len(PutsInFlight) : PutsInFlight[k] # document
    /\ \A k \in 1 .. Len(stale) : stale[k].doc # document
C19_PendingEditKept ==
    [][\A i \in 1 .. MaxQueue :
          (/\ EditWaiting
           /\ LoadsOutstanding = 1
           /\ GetDone(i)
           /\ txq[i].live
           /\ txq[i].id # document.docId
           /\ store[txq[i].id] # NoDoc)
            => \/ debounced'.pending /\ debounced'.doc = document
               \/ \E k \in 1 .. Len(stale') : stale'[k].doc = document]_vars

\* C20 (as claimed): when no load of the mounted editor is outstanding, the
\* in-memory Document carries the identifier of the route; and the
\* completion of a load for an identifier that the route has left does not
\* change the in-memory Document.
LiveLoadsOutstanding ==
    Len(SelectSeq(opens, LAMBDA q : q.kind = "load" /\ q.live))
      + Len(SelectSeq(txq, LAMBDA t : t.kind = "get" /\ t.live))
C20_LoadTargetsActive ==
    /\ [](LiveLoadsOutstanding = 0 => document.docId = docId)
    /\ [][\A i \in 1 .. MaxQueue :
            (GetDone(i) /\ txq[i].live /\ txq[i].id # docId)
              => document' = document]_vars

====
